---- MODULE Spec2Model ----
(***************************************************************************)
(* A model of @superhero/tcp-record-channel (src/index.js): the Channel    *)
(* class that frames records of string units over a byte-stream socket.    *)
(*                                                                         *)
(* A string is a sequence of code points, a Buffer a sequence of bytes.    *)
(* Buffer.from(string) and buffer.toString() are the UTF-8 conversions.    *)
(* A socket is a Node net.Socket / tls.TLSSocket reduced to the fields the *)
(* Channel reads and the calls it makes.                                   *)
(***************************************************************************)
EXTENDS Integers, Sequences, FiniteSets

VARIABLES
  variant,   \* which Channel source runs: "handshake" (src/index.js) or "immediate" (src/unnamed/part_002)
  config,    \* Channel.config
  buffer,    \* Channel.#buffer, the WeakMap socket -> Buffer (a function on the sockets that have an entry)
  sock,      \* the transport objects: socket -> its state
  emitted,   \* history: the 'record' events emitted, in order, each [units, socket]
  received,  \* history: socket -> all bytes its 'data' events carried so far
  last,      \* history: the most recent 'data' event and what its handler yielded
  call,      \* history: the most recent transmit/broadcast call and its outcome
  pc,        \* socket -> where the async onConnection of that socket stands
  client,    \* socket -> the promise #createClient returned for it (sockets made by #createClient only)
  drawn      \* the records a sender encoded onto the stream (input of the codec checks)

vars == <<variant, config, buffer, sock, emitted, received, last, call, pc, client, drawn>>

----------------------------------------------------------------------------
(* Bounds of the model *)

MaxUnits == 2       \* units in a drawn record
MaxRecords == 2     \* records packed into one arrival
MaxReceived == 3    \* bytes one socket receives in the stream checks
MaxCalls == 2       \* transmit/broadcast calls in one behaviour
MaxInbox == 2       \* bytes a peer has in flight towards an accepted socket

(* Code points and bytes used as payload: 'a' (one byte in UTF-8) and      *)
(* U+00E9 (two bytes, 0xC3 0xA9).                                          *)
UnitStrings == { <<>>, <<97>>, <<233>>, <<97, 233>> }

----------------------------------------------------------------------------
(* Strings and Buffers *)

RECURSIVE Flatten(_)
Flatten(seqs) ==
  IF seqs = <<>> THEN <<>> ELSE Head(seqs) \o Flatten(Tail(seqs))

(* Buffer.from(string): UTF-8 encoding, code points below U+0800 *)
Utf8Char(c) ==
  IF c < 128 THEN <<c>> ELSE <<192 + (c \div 64), 128 + (c % 64)>>

Utf8(str) == Flatten([i \in 1..Len(str) |-> Utf8Char(str[i])])

(* buffer.toString(): UTF-8 decoding; a byte that starts no valid sequence *)
(* becomes U+FFFD                                                          *)
RECURSIVE toString(_)
toString(bytes) ==
  IF bytes = <<>> THEN <<>>
  ELSE IF bytes[1] < 128 THEN <<bytes[1]>> \o toString(Tail(bytes))
  ELSE IF /\ bytes[1] \in 194..223
          /\ Len(bytes) >= 2
          /\ bytes[2] \in 128..191
       THEN <<(bytes[1] - 192) * 64 + (bytes[2] - 128)>> \o toString(Tail(Tail(bytes)))
  ELSE <<65533>> \o toString(Tail(bytes))

(* indexOf: the 0-based position of the first occurrence of pat, or -1 *)
IndexOf(seq, pat) ==
  LET hits == { i \in 0..(Len(seq) - Len(pat)) : SubSeq(seq, i + 1, i + Len(pat)) = pat }
  IN  IF hits = {} THEN -1 ELSE CHOOSE i \in hits : \A j \in hits : i <= j

(* Mutant: join that leaves the separator out *)
RECURSIVE JoinNoSeparator(_, _)
JoinNoSeparator(units, sep) ==
  IF units = <<>> THEN <<>> ELSE units[1] \o JoinNoSeparator(Tail(units), sep)

(* Array.prototype.join *)
RECURSIVE Join(_, _)
Join(units, sep) ==
  IF units = <<>> THEN <<>>
  ELSE IF Len(units) = 1 THEN units[1]
  ELSE units[1] \o sep \o Join(Tail(units), sep)

(* Mutant: split that returns no unit for the empty string *)
RECURSIVE SplitEmptyToNone(_, _)
SplitEmptyToNone(str, sep) ==
  IF str = <<>> THEN <<>>
  ELSE LET i == IndexOf(str, sep)
       IN  IF i = -1 THEN <<str>>
           ELSE <<SubSeq(str, 1, i)>> \o SplitEmptyToNone(SubSeq(str, i + Len(sep) + 1, Len(str)), sep)

(* String.prototype.split with a string separator *)
RECURSIVE Split(_, _)
Split(str, sep) ==
  IF sep = <<>> THEN [i \in 1..Len(str) |-> <<str[i]>>]
  ELSE LET i == IndexOf(str, sep)
       IN  IF i = -1 THEN <<str>>
           ELSE <<SubSeq(str, 1, i)>> \o Split(SubSeq(str, i + Len(sep) + 1, Len(str)), sep)

(* buffer.slice(start) and buffer.slice(0, end), 0-based *)
SliceFrom(bytes, start) == SubSeq(bytes, start + 1, Len(bytes))
SliceTo(bytes, end) == SubSeq(bytes, 1, end)

----------------------------------------------------------------------------
(* The Channel: configuration and the framing codec *)

DefaultConfig ==
  [ START_OF_TRANSMISSION |-> <<2>>,
    RECORD_SEPARATOR      |-> <<30>>,
    UNIT_SEPARATOR        |-> <<31>>,
    KEEP_ALIVE            |-> 60000 ]

(* Mutant: encode without the trailing record separator *)
encodeNoTerminator(units) == Utf8(Join(units, config.UNIT_SEPARATOR))

(* encode(units) *)
encode(units) ==
  LET record == Join(units, config.UNIT_SEPARATOR)
  IN  Utf8(record \o config.RECORD_SEPARATOR)

(* #findRecordSeparator, on the buffered bytes of a socket *)
findRecordSeparator(buffered) == IndexOf(buffered, Utf8(config.RECORD_SEPARATOR))

(* Mutant: an if in place of the loop, one record per call *)
decodeOnce(buffered) ==
  LET index == IndexOf(buffered, Utf8(config.RECORD_SEPARATOR))
  IN  IF index = -1 THEN [rest |-> buffered, yielded |-> <<>>]
      ELSE [ rest    |-> SubSeq(buffered, index + 2, Len(buffered)),
             yielded |-> << Split(toString(SubSeq(buffered, 1, index)), config.UNIT_SEPARATOR) >> ]

(* Mutant: the loop slices at index + 2 and swallows the byte that follows *)
(* a separator                                                             *)
RECURSIVE decodeLoopSkipsNext(_)
decodeLoopSkipsNext(buffered) ==
  LET index == IndexOf(buffered, Utf8(config.RECORD_SEPARATOR))
  IN  IF index = -1 THEN [rest |-> buffered, yielded |-> <<>>]
      ELSE LET units == Split(toString(SubSeq(buffered, 1, index)), config.UNIT_SEPARATOR)
               next  == decodeLoopSkipsNext(SubSeq(buffered, index + 3, Len(buffered)))
           IN  [rest |-> next.rest, yielded |-> <<units>> \o next.yielded]

(* Mutant: the loop keeps nothing when it finds no separator *)
RECURSIVE decodeLoopDropsPartial(_)
decodeLoopDropsPartial(buffered) ==
  LET index == IndexOf(buffered, Utf8(config.RECORD_SEPARATOR))
  IN  IF index = -1 THEN [rest |-> <<>>, yielded |-> <<>>]
      ELSE LET units == Split(toString(SubSeq(buffered, 1, index)), config.UNIT_SEPARATOR)
               next  == decodeLoopDropsPartial(SubSeq(buffered, index + 2, Len(buffered)))
           IN  [rest |-> next.rest, yielded |-> <<units>> \o next.yielded]

(* The loop of decode, run to its end: the records it yields and the bytes *)
(* it leaves in #buffer                                                    *)
RECURSIVE decodeLoop(_)
decodeLoop(buffered) ==
  LET index == findRecordSeparator(buffered)
  IN  IF index = -1 THEN [rest |-> buffered, yielded |-> <<>>]
      ELSE LET record == SliceTo(buffered, index)
               units  == Split(toString(record), config.UNIT_SEPARATOR)
               next   == decodeLoop(SliceFrom(buffered, index + 1))
           IN  [rest |-> next.rest, yielded |-> <<units>> \o next.yielded]

(* Mutant: decode that forgets the bytes retained by earlier calls *)
decodeNoConcat(buffered, bytes) == decodeLoop(bytes)

(* decode(socket, buffer): concatenates, then loops *)
decode(buffered, bytes) == decodeLoop(buffered \o bytes)

----------------------------------------------------------------------------
(* Sockets: the transport objects the Channel is handed *)

(* A socket as net/tls creates it: open, paused, no 'data' listener *)
NewSocket ==
  [ writable   |-> TRUE,     \* socket.writable
    destroyed  |-> FALSE,    \* socket.destroyed
    authorized |-> FALSE,    \* socket.authorized (undefined counts as false)
    listener   |-> "none",   \* the 'data' listener: "none", "ready" (#createClient's once) or "buffer"
    onClose    |-> FALSE,    \* #createClient's once('close') listener is attached
    onError    |-> FALSE,    \* #createClient's once('error') listener is attached
    flowing    |-> FALSE,    \* 'data' events are delivered (resumed)
    keepAlive  |-> 0,        \* setKeepAlive delay, 0 when never enabled
    arrived    |-> <<>>,     \* history: all bytes that reached the socket from the peer
    inbox      |-> <<>>,     \* bytes arrived from the peer, no 'data' event yet
    written    |-> <<>>,     \* the Buffers passed to socket.write, in order
    flushed    |-> 0,        \* how many of the written Buffers the transport has carried to the peer
    reported   |-> <<>> ]    \* history: the 'error' and 'close' events the transport emitted on the socket

NoEvent == [socket |-> "none", bytes |-> <<>>, before |-> <<>>, yielded |-> <<>>]
NoCall  == [op |-> "none", n |-> 0]

(* init(socket): #buffer.set(socket, Buffer.from('')) *)
init(map, s) == [x \in (DOMAIN map) \cup {s} |-> IF x = s THEN <<>> ELSE map[x]]

(* The records notified for socket s, in order *)
RECURSIVE RecordsOf(_, _)
RecordsOf(events, s) ==
  IF events = <<>> THEN <<>>
  ELSE (IF Head(events).socket = s THEN <<Head(events).units>> ELSE <<>>)
       \o RecordsOf(Tail(events), s)

(* Mutant: the records of one call are notified last first *)
bufferHandlerReversed(s, bytes) ==
  LET d == decode(buffer[s], bytes)
      n == Len(d.yielded)
  IN  /\ buffer'  = [buffer EXCEPT ![s] = d.rest]
      /\ emitted' = emitted \o [i \in 1..n |-> [units |-> d.yielded[n + 1 - i], socket |-> s]]
      /\ last'    = [socket |-> s, bytes |-> bytes, before |-> buffer[s], yielded |-> d.yielded]

(* Mutant: one reassembly buffer shared by all the sockets *)
bufferHandlerSharedBuffer(s, bytes) ==
  LET d == decode(buffer["s1"], bytes)
  IN  /\ buffer'  = [buffer EXCEPT !["s1"] = d.rest]
      /\ emitted' = emitted \o [i \in 1..Len(d.yielded) |-> [units |-> d.yielded[i], socket |-> s]]
      /\ last'    = [socket |-> s, bytes |-> bytes, before |-> buffer["s1"], yielded |-> d.yielded]

(* buffer(socket, buffer): the 'data' listener. Every record decode       *)
(* yields is emitted as 'record' with (units, socket).                    *)
bufferHandler(s, bytes) ==
  LET d == decode(buffer[s], bytes)
  IN  /\ buffer'  = [buffer EXCEPT ![s] = d.rest]
      /\ emitted' = emitted \o [i \in 1..Len(d.yielded) |-> [units |-> d.yielded[i], socket |-> s]]
      /\ last'    = [socket |-> s, bytes |-> bytes, before |-> buffer[s], yielded |-> d.yielded]

(* The socket delivers 'data' events to the buffer listener *)
Listening(s) ==
  /\ ~sock[s].destroyed
  /\ sock[s].flowing
  /\ sock[s].listener = "buffer"

(* The transport emits 'data' on s with the first n bytes it holds *)
Data(s, n) ==
  /\ Listening(s)
  /\ n \in 1..Len(sock[s].inbox)
  /\ LET bytes == SubSeq(sock[s].inbox, 1, n)
     IN  /\ bufferHandler(s, bytes)
         /\ received' = [received EXCEPT ![s] = @ \o bytes]
         /\ sock' = [sock EXCEPT ![s].inbox = SubSeq(@, n + 1, Len(@))]
  /\ UNCHANGED <<client, variant, config, call, pc, drawn>>

----------------------------------------------------------------------------
(* The transmit / broadcast dispatcher. The operators take the sockets'    *)
(* state and return it after the call, with the error thrown, if any, as   *)
(* a sequence of zero or one error.                                        *)

(* socket.write(record) *)
write(socks, s, record) == [socks EXCEPT ![s].written = Append(@, record)]

(* Mutant: #transmit without the writable test *)
transmitPrivateUnchecked(socks, s, record) ==
  [sock |-> write(socks, s, record), error |-> <<>>]

(* #transmit(socket, record) *)
transmitPrivate(socks, s, record) ==
  IF socks[s].writable
  THEN [sock |-> write(socks, s, record), error |-> <<>>]
  ELSE [sock  |-> socks,
        error |-> << [ message |-> "Could not write record to socket",
                       code    |-> "E_TCP_RECORD_CHANNEL_TRANSMIT",
                       cause   |-> "Socket is not writable",
                       socket  |-> s,
                       record  |-> <<>> ] >>]

(* Mutant: transmit that rethrows without attaching the units *)
transmitNoRecord(socks, s, units) == transmitPrivate(socks, s, encode(units))

(* transmit(socket, units): the error of #transmit gets record = units *)
transmit(socks, s, units) ==
  LET record == encode(units)
      r      == transmitPrivate(socks, s, record)
  IN  IF r.error = <<>> THEN r
      ELSE LET error == r.error[1]
           IN  [r EXCEPT !.error =
                  << IF error.code = "E_TCP_RECORD_CHANNEL_TRANSMIT"
                     THEN [error EXCEPT !.record = <<units>>]
                     ELSE error >>]

(* Mutant: the loop ends at the first destination that fails *)
RECURSIVE broadcastLoopAbort(_, _, _, _)
broadcastLoopAbort(socks, sockets, record, reasons) ==
  IF sockets = <<>> \/ reasons # <<>> THEN [sock |-> socks, reasons |-> reasons]
  ELSE LET r == transmitPrivate(socks, Head(sockets), record)
       IN  broadcastLoopAbort(r.sock, Tail(sockets), record, reasons \o r.error)

(* Mutant: the loop puts each reason in front of the earlier ones *)
RECURSIVE broadcastLoopUnshift(_, _, _, _)
broadcastLoopUnshift(socks, sockets, record, reasons) ==
  IF sockets = <<>> THEN [sock |-> socks, reasons |-> reasons]
  ELSE LET r == transmitPrivate(socks, Head(sockets), record)
       IN  broadcastLoopUnshift(r.sock, Tail(sockets), record, r.error \o reasons)

(* The for loop of broadcast: #transmit to each socket in order, the       *)
(* reasons of the failures collected                                       *)
RECURSIVE broadcastLoop(_, _, _, _)
broadcastLoop(socks, sockets, record, reasons) ==
  IF sockets = <<>> THEN [sock |-> socks, reasons |-> reasons]
  ELSE LET r == transmitPrivate(socks, Head(sockets), record)
       IN  broadcastLoop(r.sock, Tail(sockets), record, reasons \o r.error)

(* broadcast(sockets, units) *)
broadcast(socks, sockets, units) ==
  LET record == encode(units)
      done   == broadcastLoop(socks, sockets, record, <<>>)
  IN  [sock  |-> done.sock,
       error |-> IF Len(done.reasons) > 0
                 THEN << [ message |-> "Could not broadcast record to all sockets",
                           code    |-> "E_TCP_RECORD_CHANNEL_BROADCAST",
                           record  |-> <<units>>,
                           cause   |-> done.reasons ] >>
                 ELSE <<>>]

(* A caller calls channel.encode(units) *)
Encode(units) ==
  /\ call.n < MaxCalls
  /\ call' = [op |-> "encode", n |-> call.n + 1, sockets |-> <<>>, units |-> units,
              before |-> sock, error |-> <<>>, result |-> encode(units)]
  /\ UNCHANGED <<client, variant, config, buffer, sock, emitted, received, last, pc, drawn>>

(* A caller calls channel.transmit(s, units) *)
Transmit(s, units) ==
  /\ pc[s] # "idle"
  /\ call.n < MaxCalls
  /\ LET r == transmit(sock, s, units)
     IN  /\ sock' = r.sock
         /\ call' = [op |-> "transmit", n |-> call.n + 1, sockets |-> <<s>>, units |-> units,
                     before |-> sock, error |-> r.error]
  /\ UNCHANGED <<client, variant, config, buffer, emitted, received, last, pc, drawn>>

(* A caller calls channel.broadcast(sockets, units) *)
Broadcast(sockets, units) ==
  /\ \A i \in 1..Len(sockets) : pc[sockets[i]] # "idle"
  /\ call.n < MaxCalls
  /\ LET r == broadcast(sock, sockets, units)
     IN  /\ sock' = r.sock
         /\ call' = [op |-> "broadcast", n |-> call.n + 1, sockets |-> sockets, units |-> units,
                     before |-> sock, error |-> r.error]
  /\ UNCHANGED <<client, variant, config, buffer, emitted, received, last, pc, drawn>>

(* socket.destroy() *)
destroy(socks, s) ==
  [socks EXCEPT ![s].writable = FALSE, ![s].destroyed = TRUE, ![s].inbox = <<>>]

(* The transport closes s (the peer ended, a transport error): the socket  *)
(* is destroyed and not writable any more                                  *)
Close(s) ==
  /\ pc[s] # "idle"
  /\ ~sock[s].destroyed
  /\ sock' = destroy(sock, s)
  /\ UNCHANGED <<client, variant, config, buffer, emitted, received, last, call, pc, drawn>>

----------------------------------------------------------------------------
(* The accepting side: onConnection                                        *)
(*   pc[s] = "idle"      no connection yet                                  *)
(*           "plugin"    onConnection awaits the plugin                     *)
(*           "ready"     authorized and admitted                            *)
(*           "rejected"  not authorized, destroyed                          *)
(*           "threw"     authorized, but #transmit of the marker threw      *)

(* Mutant: admitting the socket drops the bytes it held while paused *)
admitDiscardsHeld(socks, s) ==
  LET wired == [socks EXCEPT ![s].listener = "buffer",
                             ![s].keepAlive = config.KEEP_ALIVE,
                             ![s].flowing = TRUE,
                             ![s].inbox = <<>>]
  IN  IF variant = "handshake"
      THEN transmitPrivate(wired, s, Utf8(config.START_OF_TRANSMISSION))
      ELSE [sock |-> wired, error |-> <<>>]

(* onConnection, the authorized branch on the socket: the 'data' listener, *)
(* keep-alive, resume and, in src/index.js, the ready marker               *)
admit(socks, s) ==
  LET wired == [socks EXCEPT ![s].listener = "buffer",
                             ![s].keepAlive = config.KEEP_ALIVE,
                             ![s].flowing = TRUE]
  IN  IF variant = "handshake"
      THEN transmitPrivate(wired, s, Utf8(config.START_OF_TRANSMISSION))
      ELSE [sock |-> wired, error |-> <<>>]

(* Mutant: the unauthorized branch without socket.destroy() *)
onConnectionDecideNoDestroy(s, socks) ==
  IF socks[s].authorized
  THEN LET r == admit(socks, s)
       IN  /\ buffer' = init(buffer, s)
           /\ sock' = r.sock
           /\ pc' = [pc EXCEPT ![s] = IF r.error = <<>> THEN "ready" ELSE "threw"]
  ELSE /\ buffer' = buffer
       /\ sock' = socks
       /\ pc' = [pc EXCEPT ![s] = "rejected"]

(* Mutant: init(socket) before the test of socket.authorized *)
onConnectionDecideInitFirst(s, socks) ==
  IF socks[s].authorized
  THEN LET r == admit(socks, s)
       IN  /\ buffer' = init(buffer, s)
           /\ sock' = r.sock
           /\ pc' = [pc EXCEPT ![s] = IF r.error = <<>> THEN "ready" ELSE "threw"]
  ELSE /\ buffer' = init(buffer, s)
       /\ sock' = destroy(socks, s)
       /\ pc' = [pc EXCEPT ![s] = "rejected"]

(* onConnection from its test of socket.authorized on; socks is the state  *)
(* of the sockets when the function reaches the test                       *)
onConnectionDecide(s, socks) ==
  IF socks[s].authorized
  THEN LET r == admit(socks, s)
       IN  /\ buffer' = init(buffer, s)
           /\ sock' = r.sock
           /\ pc' = [pc EXCEPT ![s] = IF r.error = <<>> THEN "ready" ELSE "threw"]
  ELSE /\ buffer' = buffer
       /\ sock' = destroy(socks, s)
       /\ pc' = [pc EXCEPT ![s] = "rejected"]

(* Mutant: onConnection wires the 'data' listener before it awaits the     *)
(* plugin                                                                  *)
ConnectionListensFirst(s, authorized, plugin) ==
  /\ pc[s] = "idle"
  /\ LET socks == [sock EXCEPT ![s].authorized = authorized,
                               ![s].listener = "buffer", ![s].flowing = TRUE]
     IN  IF plugin
         THEN /\ sock' = socks
              /\ pc' = [pc EXCEPT ![s] = "plugin"]
              /\ buffer' = init(buffer, s)
         ELSE onConnectionDecide(s, socks)
  /\ UNCHANGED <<client, variant, config, emitted, received, last, call, drawn>>

(* The server emits 'connection' / 'secureConnection' with a new socket    *)
(* and onConnection runs up to its await. authorized is what the transport *)
(* set on the socket (TLS client certificate verified or not); without a   *)
(* plugin nothing is awaited.                                              *)
Connection(s, authorized, plugin) ==
  /\ pc[s] = "idle"
  /\ LET socks == [sock EXCEPT ![s].authorized = authorized]
     IN  IF plugin
         THEN /\ sock' = socks
              /\ pc' = [pc EXCEPT ![s] = "plugin"]
              /\ buffer' = buffer
         ELSE onConnectionDecide(s, socks)
  /\ UNCHANGED <<client, variant, config, emitted, received, last, call, drawn>>

(* The plugin's promise settles, the plugin having left socket.authorized  *)
(* at the value given, and onConnection resumes                            *)
PluginSettles(s, authorized) ==
  /\ pc[s] = "plugin"
  /\ onConnectionDecide(s, [sock EXCEPT ![s].authorized = authorized])
  /\ UNCHANGED <<client, variant, config, emitted, received, last, call, drawn>>

(* A byte sent by the peer reaches the socket *)
PeerSend(s, byte) ==
  /\ pc[s] # "idle"
  /\ ~sock[s].destroyed
  /\ Len(sock[s].inbox) < MaxInbox
  /\ Len(sock[s].arrived) < MaxReceived
  /\ sock' = [sock EXCEPT ![s].inbox = Append(@, byte), ![s].arrived = Append(@, byte)]
  /\ UNCHANGED <<client, variant, config, buffer, emitted, received, last, call, pc, drawn>>

----------------------------------------------------------------------------
(* The transport: what it reports on a socket and what it carries between  *)
(* the two ends of a connection                                            *)

(* The other end of a connection: the socket net/tls created at the peer *)
Peer(x) == CASE x = "c1" -> "s1" [] x = "s1" -> "c1"

(* The transport carries the next written Buffer of x to the other end,    *)
(* where it waits for a 'data' event; a destroyed end takes nothing        *)
Flush(x) ==
  /\ ~sock[x].destroyed
  /\ sock[x].flushed < Len(sock[x].written)
  /\ LET bytes == sock[x].written[sock[x].flushed + 1]
         y     == Peer(x)
     IN  sock' = [sock EXCEPT ![x].flushed = @ + 1,
                              ![y].inbox   = IF sock[y].destroyed THEN @ ELSE @ \o bytes,
                              ![y].arrived = IF sock[y].destroyed THEN @ ELSE @ \o bytes]
  /\ UNCHANGED <<client, variant, config, buffer, emitted, received, last, call, pc, drawn>>

(* A promise settles once: reject and accept change a pending promise only *)
Pending == [state |-> "pending", error |-> <<>>, signal |-> <<>>]
reject(promise, error) ==
  IF promise.state = "pending"
  THEN [promise EXCEPT !.state = "rejected", !.error = <<error>>]
  ELSE promise
accept(promise) ==
  IF promise.state = "pending" THEN [promise EXCEPT !.state = "accepted"] ELSE promise

(* #createClient: the once('close') listener *)
onClose(promise) ==
  reject(promise, [ message |-> "Could not connect to server",
                    code    |-> "E_TCP_RECORD_CHANNEL_CLIENT_CONNECT",
                    cause   |-> [ message |-> "Connection closed before ready",
                                  code    |-> "E_TCP_RECORD_CHANNEL_CLOSED_BEFORE_READY" ] ])

(* Mutant: the 'error' listener hides the reason behind a closed cause *)
onErrorHidesReason(promise, reason) ==
  reject(promise, [ message |-> "Error when connecting to server",
                    code    |-> "E_TCP_RECORD_CHANNEL_CLIENT_CONNECT",
                    cause   |-> [ message |-> "Connection closed before ready",
                                  code    |-> "E_TCP_RECORD_CHANNEL_CLOSED_BEFORE_READY" ] ])

(* #createClient: the once('error') listener *)
onError(promise, reason) ==
  reject(promise, [ message |-> "Error when connecting to server",
                    code    |-> "E_TCP_RECORD_CHANNEL_CLIENT_CONNECT",
                    cause   |-> reason ])

(* The error objects the transport reports *)
Reasons ==
  { [message |-> "read ECONNRESET", code |-> "ECONNRESET"],
    [message |-> "unable to verify the first certificate", code |-> "UNABLE_TO_VERIFY_LEAF_SIGNATURE"] }

(* The transport reports an error on a socket made by #createClient: the   *)
(* socket is destroyed and 'error' is emitted, 'close' is to follow. The   *)
(* once('error') listener runs if it is still attached; after a successful *)
(* handshake it is not, and the event reaches no code of the Channel.      *)
Error(s, reason) ==
  /\ s \in DOMAIN client
  /\ ~sock[s].destroyed
  /\ sock' = [destroy(sock, s) EXCEPT ![s].onError = FALSE,
                                      ![s].reported = Append(@, [event |-> "error", reason |-> reason])]
  /\ client' = IF sock[s].onError THEN [client EXCEPT ![s] = onError(@, reason)] ELSE client
  /\ UNCHANGED <<variant, config, buffer, emitted, received, last, call, pc, drawn>>

(* The transport emits 'close' on a destroyed socket, once *)
CloseEvent(s) ==
  /\ sock[s].destroyed
  /\ \A i \in 1..Len(sock[s].reported) : sock[s].reported[i].event # "close"
  /\ sock' = [sock EXCEPT ![s].onClose = FALSE,
                          ![s].reported = Append(@, [event |-> "close", reason |-> [message |-> "", code |-> ""]])]
  /\ client' = IF sock[s].onClose THEN [client EXCEPT ![s] = onClose(@)] ELSE client
  /\ UNCHANGED <<variant, config, buffer, emitted, received, last, call, pc, drawn>>

----------------------------------------------------------------------------
(* The initiating side: #createClient                                      *)
(*   pc[c] = "client"    a socket made by #createClient                    *)

(* Mutant: #createClient wires the decoder before the ready signal came *)
createClientWiresDecoder(c) ==
  /\ pc[c] = "idle"
  /\ c \notin DOMAIN client
  /\ buffer' = init(buffer, c)
  /\ pc' = [pc EXCEPT ![c] = "client"]
  /\ sock' = [sock EXCEPT ![c].keepAlive = config.KEEP_ALIVE,
                          ![c].onClose = TRUE,
                          ![c].onError = TRUE,
                          ![c].listener = "buffer",
                          ![c].flowing = TRUE]
  /\ client' = [x \in (DOMAIN client) \cup {c} |-> IF x = c THEN Pending ELSE client[x]]
  /\ UNCHANGED <<variant, config, emitted, received, last, call, drawn>>

(* createTlsClient / createNetClient: connect, init, keep-alive and, in    *)
(* src/index.js, the three once listeners of the promise; the older source *)
(* wires the decoder at once and returns the socket                        *)
createClient(c) ==
  /\ pc[c] = "idle"
  /\ c \notin DOMAIN client
  /\ buffer' = init(buffer, c)
  /\ pc' = [pc EXCEPT ![c] = "client"]
  /\ IF variant = "handshake"
     THEN /\ sock' = [sock EXCEPT ![c].keepAlive = config.KEEP_ALIVE,
                                  ![c].onClose = TRUE,
                                  ![c].onError = TRUE,
                                  ![c].listener = "ready",
                                  ![c].flowing = TRUE]
          /\ client' = [x \in (DOMAIN client) \cup {c} |-> IF x = c THEN Pending ELSE client[x]]
     ELSE /\ sock' = [sock EXCEPT ![c].keepAlive = config.KEEP_ALIVE,
                                  ![c].listener = "buffer",
                                  ![c].flowing = TRUE]
          /\ client' = [x \in (DOMAIN client) \cup {c} |-> IF x = c THEN accept(Pending) ELSE client[x]]
  /\ UNCHANGED <<variant, config, emitted, received, last, call, drawn>>

(* Mutant: the once('data') listener takes any first bytes as the signal *)
ReadyDataAnySignal(c, n) ==
  /\ ~sock[c].destroyed
  /\ sock[c].flowing
  /\ sock[c].listener = "ready"
  /\ n \in 1..Len(sock[c].inbox)
  /\ LET bytes == SubSeq(sock[c].inbox, 1, n)
         rest  == SubSeq(sock[c].inbox, n + 1, Len(sock[c].inbox))
     IN  /\ received' = [received EXCEPT ![c] = @ \o bytes]
         /\ last' = [socket |-> c, bytes |-> bytes, before |-> buffer[c], yielded |-> <<>>]
         /\ sock' = [sock EXCEPT ![c].inbox = rest, ![c].onClose = FALSE, ![c].onError = FALSE,
                                 ![c].listener = "buffer", ![c].flowing = TRUE]
         /\ client' = [client EXCEPT ![c] = accept([@ EXCEPT !.signal = bytes])]
  /\ UNCHANGED <<variant, config, buffer, emitted, call, pc, drawn>>

(* Mutant: the once('data') listener hands the signal's bytes to the       *)
(* decoder as well                                                         *)
ReadyDataFeedsDecoder(c, n) ==
  /\ ~sock[c].destroyed
  /\ sock[c].flowing
  /\ sock[c].listener = "ready"
  /\ n \in 1..Len(sock[c].inbox)
  /\ LET bytes  == SubSeq(sock[c].inbox, 1, n)
         rest   == SubSeq(sock[c].inbox, n + 1, Len(sock[c].inbox))
         paused == [sock EXCEPT ![c].inbox = rest, ![c].listener = "none", ![c].flowing = FALSE]
     IN  /\ received' = [received EXCEPT ![c] = @ \o bytes]
         /\ IF config.START_OF_TRANSMISSION = toString(bytes)
            THEN /\ sock' = [paused EXCEPT ![c].onClose = FALSE,
                                           ![c].onError = FALSE,
                                           ![c].listener = "buffer",
                                           ![c].flowing = TRUE]
                 /\ client' = [client EXCEPT ![c] = accept([@ EXCEPT !.signal = bytes])]
                 /\ bufferHandler(c, bytes)
            ELSE /\ sock' = destroy(paused, c)
                 /\ client' = [client EXCEPT ![c] =
                      reject([@ EXCEPT !.signal = bytes],
                             [ message |-> "Server not ready",
                               code    |-> "E_TCP_RECORD_CHANNEL_CLIENT_CONNECT",
                               cause   |-> [ message |-> "Invalid ready signal",
                                             code    |-> "E_TCP_RECORD_CHANNEL_INVALID_READY_SIGNAL" ] ])]
                 /\ UNCHANGED <<buffer, emitted, last>>
  /\ UNCHANGED <<variant, config, call, pc, drawn>>

(* Mutant: on a mismatch the once('data') listener destroys the socket and *)
(* leaves the rejection to the 'close' listener                            *)
ReadyDataLeavesRejectToClose(c, n) ==
  /\ ~sock[c].destroyed
  /\ sock[c].flowing
  /\ sock[c].listener = "ready"
  /\ n \in 1..Len(sock[c].inbox)
  /\ LET bytes  == SubSeq(sock[c].inbox, 1, n)
         rest   == SubSeq(sock[c].inbox, n + 1, Len(sock[c].inbox))
         paused == [sock EXCEPT ![c].inbox = rest, ![c].listener = "none", ![c].flowing = FALSE]
     IN  /\ received' = [received EXCEPT ![c] = @ \o bytes]
         /\ last' = [socket |-> c, bytes |-> bytes, before |-> buffer[c], yielded |-> <<>>]
         /\ IF config.START_OF_TRANSMISSION = toString(bytes)
            THEN /\ sock' = [paused EXCEPT ![c].onClose = FALSE,
                                           ![c].onError = FALSE,
                                           ![c].listener = "buffer",
                                           ![c].flowing = TRUE]
                 /\ client' = [client EXCEPT ![c] = accept([@ EXCEPT !.signal = bytes])]
            ELSE /\ sock' = destroy(paused, c)
                 /\ client' = [client EXCEPT ![c].signal = bytes]
  /\ UNCHANGED <<variant, config, buffer, emitted, call, pc, drawn>>

(* #createClient: the once('data') listener, run by the first 'data' event *)
(* of the socket, which carries the first n bytes the transport holds      *)
ReadyData(c, n) ==
  /\ ~sock[c].destroyed
  /\ sock[c].flowing
  /\ sock[c].listener = "ready"
  /\ n \in 1..Len(sock[c].inbox)
  /\ LET bytes  == SubSeq(sock[c].inbox, 1, n)
         rest   == SubSeq(sock[c].inbox, n + 1, Len(sock[c].inbox))
         paused == [sock EXCEPT ![c].inbox = rest, ![c].listener = "none", ![c].flowing = FALSE]
     IN  /\ received' = [received EXCEPT ![c] = @ \o bytes]
         /\ last' = [socket |-> c, bytes |-> bytes, before |-> buffer[c], yielded |-> <<>>]
         /\ IF config.START_OF_TRANSMISSION = toString(bytes)
            THEN /\ sock' = [paused EXCEPT ![c].onClose = FALSE,
                                           ![c].onError = FALSE,
                                           ![c].listener = "buffer",
                                           ![c].flowing = TRUE]
                 /\ client' = [client EXCEPT ![c] = accept([@ EXCEPT !.signal = bytes])]
            ELSE /\ sock' = destroy(paused, c)
                 /\ client' = [client EXCEPT ![c] =
                      reject([@ EXCEPT !.signal = bytes],
                             [ message |-> "Server not ready",
                               code    |-> "E_TCP_RECORD_CHANNEL_CLIENT_CONNECT",
                               cause   |-> [ message |-> "Invalid ready signal",
                                             code    |-> "E_TCP_RECORD_CHANNEL_INVALID_READY_SIGNAL" ] ])]
  /\ UNCHANGED <<variant, config, buffer, emitted, call, pc, drawn>>

----------------------------------------------------------------------------
(* Codec specification: one admitted socket; a sender encoded one drawn   *)
(* record; the transport delivers the bytes in any chunks.                *)

UnitSeqs == UNION { [1..n -> UnitStrings] : n \in 0..MaxUnits }

(* An authorized socket after onConnection admitted it, the bytes of inbox *)
(* having arrived since                                                    *)
Admitted(inbox) ==
  LET s == "s1"
      socks == [x \in {s} |-> [NewSocket EXCEPT !.authorized = TRUE]]
  IN  [admit(socks, s).sock[s] EXCEPT !.arrived = inbox, !.inbox = inbox]

Stream(records) == Flatten([i \in 1..Len(records) |-> encode(records[i])])

InitDrawn(records) ==
  /\ variant = "handshake"
  /\ config = DefaultConfig
  /\ drawn \in records
  /\ sock = [s \in {"s1"} |-> Admitted(Stream(drawn))]
  /\ buffer = init(<<>>, "s1")
  /\ emitted = <<>>
  /\ received = [s \in {"s1"} |-> <<>>]
  /\ last = NoEvent
  /\ call = NoCall
  /\ client = <<>>
  /\ pc = [s \in {"s1"} |-> "ready"]

InitCodec == InitDrawn({ <<u>> : u \in UnitSeqs })

DataChunk == \E n \in 1..Len(sock["s1"].inbox) : Data("s1", n)

EncodeDrawn == Encode(drawn[1])

NextCodec == DataChunk \/ EncodeDrawn

SpecCodec == InitCodec /\ [][NextCodec]_vars

(* The whole stream arrived in one 'data' event on an empty buffer *)
WholeArrival ==
  /\ last.socket = "s1"
  /\ last.before = <<>>
  /\ last.bytes = Stream(drawn)
  /\ received["s1"] = last.bytes

C3_Fragmentation ==
  /\ received["s1"] # Stream(drawn) => emitted = <<>>
  /\ received["s1"] = Stream(drawn) =>
        /\ Len(emitted) = 1
        /\ RecordsOf(emitted, "s1") = decode(<<>>, Stream(drawn)).yielded
        /\ Len(drawn[1]) >= 1 => emitted[1].units = drawn[1]
        /\ buffer["s1"] = <<>>

(* The last of several events completed a record cut inside a two-byte     *)
(* character.                                                              *)
C3_Witness ==
  /\ received["s1"] = Stream(drawn)
  /\ Len(last.before) >= 2
  /\ last.before[Len(last.before)] = 195
  /\ last.bytes[1] = 169
  /\ Len(last.bytes) >= 2
  /\ Len(emitted) = 1

(* The bytes of units u_1 .. u_n (n >= 1) with a unit separator between    *)
(* each two, and the sum of the byte lengths of the units                  *)
RECURSIVE Separated(_)
Separated(units) ==
  IF Len(units) = 1 THEN Utf8(units[1])
  ELSE Utf8(units[1]) \o Utf8(config.UNIT_SEPARATOR) \o Separated(Tail(units))

RECURSIVE SumOfLengths(_)
SumOfLengths(units) ==
  IF units = <<>> THEN 0 ELSE Len(Utf8(units[1])) + SumOfLengths(Tail(units))

(* C17: wire format. encode of n >= 1 units returns the units' bytes with  *)
(* one UNIT_SEPARATOR between each two and one RECORD_SEPARATOR at the     *)
(* end, so its length is the units' lengths plus n - 1 separators plus one *)
(* terminator; encode of no unit returns the lone RECORD_SEPARATOR; and a  *)
(* call of encode changes no socket, no buffer, no notification and not    *)
(* the configuration.                                                      *)
C17_WireFormat ==
  /\ [](call.op = "encode" =>
          LET n == Len(call.units)
          IN  /\ n >= 1 => /\ call.result = Separated(call.units) \o Utf8(config.RECORD_SEPARATOR)
                           /\ Len(call.result) = SumOfLengths(call.units)
                                                   + (n - 1) * Len(Utf8(config.UNIT_SEPARATOR))
                                                   + Len(Utf8(config.RECORD_SEPARATOR))
              /\ n = 0 => call.result = Utf8(config.RECORD_SEPARATOR))
  /\ [][(call'.op = "encode" /\ call'.n # call.n) =>
           UNCHANGED <<config, buffer, sock, emitted, received>>]_vars

(* encode was called on two units, one of them of two bytes, the other     *)
(* empty, while bytes were waiting in the socket's buffer                  *)
C17_Witness ==
  /\ call.op = "encode"
  /\ call.units = << <<97, 233>>, <<>> >>
  /\ call.result = <<97, 195, 169, 31, 30>>
  /\ buffer["s1"] = <<97, 195>>

----------------------------------------------------------------------------
(* Packing specification: a sender encoded a drawn list of records and     *)
(* the transport delivers all their bytes in one 'data' event.             *)

PackStrings == { <<>>, <<97>> }
PackUnitSeqs == UNION { [1..n -> PackStrings] : n \in 0..MaxUnits }

InitPack == InitDrawn(UNION { [1..n -> PackUnitSeqs] : n \in 1..MaxRecords })

DataWhole == Data("s1", Len(sock["s1"].inbox))

NextPack == DataWhole

SpecPack == InitPack /\ [][NextPack]_vars

----------------------------------------------------------------------------
(* Stream specification: two admitted sockets of one Channel; the peers    *)
(* send any bytes and the transport delivers them in any chunks, the       *)
(* events of the two sockets interleaved in any order.                     *)

StreamSockets == {"s1", "s2"}
StreamBytes == {97, 30}
StreamChunks == UNION { [1..n -> StreamBytes] : n \in 1..MaxReceived }

InitStream ==
  /\ variant = "handshake"
  /\ config = DefaultConfig
  /\ drawn = <<>>
  /\ sock = [s \in StreamSockets |-> Admitted(<<>>)]
  /\ buffer = init(init(<<>>, "s1"), "s2")
  /\ emitted = <<>>
  /\ received = [s \in StreamSockets |-> <<>>]
  /\ last = NoEvent
  /\ call = NoCall
  /\ client = <<>>
  /\ pc = [s \in StreamSockets |-> "ready"]

(* Bytes arrive on s and the transport emits them as one 'data' event *)
Arrive(s, bytes) ==
  /\ Listening(s)
  /\ sock[s].inbox = <<>>
  /\ Len(received[s]) + Len(bytes) <= MaxReceived
  /\ bufferHandler(s, bytes)
  /\ received' = [received EXCEPT ![s] = @ \o bytes]
  /\ sock' = [sock EXCEPT ![s].arrived = @ \o bytes]
  /\ UNCHANGED <<client, variant, config, call, pc, drawn>>

NextStream == \E s \in StreamSockets, bytes \in StreamChunks : Arrive(s, bytes)

SpecStream == InitStream /\ [][NextStream]_vars

(* The positions of the record separator bytes in a byte stream, and the   *)
(* units of the record that the k-th of them terminates                    *)
SeparatorsIn(bytes) == { i \in 1..Len(bytes) : <<bytes[i]>> = Utf8(config.RECORD_SEPARATOR) }

NthSeparator(bytes, k) ==
  CHOOSE i \in SeparatorsIn(bytes) : Cardinality({ j \in SeparatorsIn(bytes) : j <= i }) = k

TerminatedBy(bytes, k) ==
  LET from == IF k = 1 THEN 1 ELSE NthSeparator(bytes, k - 1) + 1
  IN  Split(toString(SubSeq(bytes, from, NthSeparator(bytes, k) - 1)), config.UNIT_SEPARATOR)

(* C5: per-connection ordering. Whatever the interleaving of the 'data'    *)
(* events of the sockets, the k-th 'record' notified for a socket is the   *)
(* record terminated by the k-th record separator of that socket's byte    *)
(* stream.                                                                 *)
C5_PerConnectionOrder ==
  \A s \in StreamSockets :
    LET notified == RecordsOf(emitted, s)
    IN  /\ Len(notified) = Cardinality(SeparatorsIn(received[s]))
        /\ \A k \in 1..Len(notified) : notified[k] = TerminatedBy(received[s], k)

(* Two different records of s1 were notified in stream order, in separate  *)
(* events, with a record of s2 notified between them.                      *)
C5_Witness ==
  /\ Len(emitted) = 3
  /\ emitted[1] = [units |-> << <<97>> >>, socket |-> "s1"]
  /\ emitted[2].socket = "s2"
  /\ emitted[3] = [units |-> << <<>> >>, socket |-> "s1"]
  /\ received["s1"] = <<97, 30, 30>>

(* C18: each separator is consumed exactly once. After any 'data' events,  *)
(* the number of 'record' notifications for a socket equals the number of  *)
(* record separators among all bytes received on it, and each event        *)
(* notifies as many records as it carried separators.                      *)
C18_SeparatorConsumedOnce ==
  /\ \A s \in StreamSockets :
        Len(RecordsOf(emitted, s)) = Cardinality(SeparatorsIn(received[s]))
  /\ Len(last.yielded) = Cardinality(SeparatorsIn(last.bytes))

(* Two separators next to each other, arrived in one event behind a        *)
(* retained byte, gave two records                                         *)
C18_Witness ==
  /\ received["s1"] = <<97, 30, 30>>
  /\ last.socket = "s1"
  /\ last.before = <<97>>
  /\ last.bytes = <<30, 30>>
  /\ RecordsOf(emitted, "s1") = << << <<97>> >>, << <<>> >> >>

(* The bytes of a stream that follow its last record separator *)
AfterLastSeparator(bytes) ==
  LET seps == SeparatorsIn(bytes)
  IN  IF seps = {} THEN bytes
      ELSE SubSeq(bytes, (CHOOSE i \in seps : \A j \in seps : j <= i) + 1, Len(bytes))

(* C19: partial records are retained. After every 'data' event the buffer  *)
(* of a socket is exactly the bytes received after the last record         *)
(* separator, it holds no separator, and an event that carried no          *)
(* separator notified nothing and appended its bytes to the buffer.        *)
C19_PartialRetained ==
  /\ \A s \in StreamSockets :
        /\ buffer[s] = AfterLastSeparator(received[s])
        /\ SeparatorsIn(buffer[s]) = {}
  /\ (last.socket # "none" /\ SeparatorsIn(last.bytes) = {}) =>
        /\ last.yielded = <<>>
        /\ buffer[last.socket] = last.before \o last.bytes

(* After a complete record, two events without a separator left their      *)
(* bytes in the buffer and notified nothing more                           *)
C19_Witness ==
  /\ received["s1"] = <<30, 97, 97>>
  /\ last.socket = "s1"
  /\ last.before = <<97>>
  /\ last.bytes = <<97>>
  /\ buffer["s1"] = <<97, 97>>
  /\ Len(emitted) = 1

(* C25: connections are independent. A 'data' event of a socket leaves the *)
(* buffer of every other socket as it was and adds only notifications      *)
(* that carry this socket; and in every interleaving the records notified  *)
(* for a socket, and what its buffer holds, are what decoding the bytes of *)
(* that socket alone, in one piece, gives.                                 *)
C25_ConnectionsIndependent ==
  /\ [](\A s \in StreamSockets :
          LET alone == decode(<<>>, received[s])
          IN  /\ RecordsOf(emitted, s) = alone.yielded
              /\ buffer[s] = alone.rest)
  /\ [][\A s \in StreamSockets :
          received'[s] # received[s] =>
            /\ \A o \in StreamSockets \ {s} : buffer'[o] = buffer[o]
            /\ Len(emitted') >= Len(emitted)
            /\ SubSeq(emitted', 1, Len(emitted)) = emitted
            /\ \A i \in (Len(emitted) + 1)..Len(emitted') : emitted'[i].socket = s]_vars

(* A 'data' event of s2 completed a record while s1, which had a record    *)
(* notified before, held a partial record                                  *)
C25_Witness ==
  /\ last.socket = "s2"
  /\ last.before # <<>>
  /\ last.yielded # <<>>
  /\ buffer["s1"] # <<>>
  /\ RecordsOf(emitted, "s1") # <<>>

----------------------------------------------------------------------------
(* Dispatch specification: three admitted sockets; callers transmit and    *)
(* broadcast while the transport closes sockets at any moment.             *)

DispatchSockets == {"s1", "s2", "s3"}
DispatchUnits == { << <<97>> >>, << <<97>>, <<233>> >> }

(* The destination lists: every sequence of different sockets *)
Destinations ==
  { d \in UNION { [1..n -> DispatchSockets] : n \in 0..Cardinality(DispatchSockets) } :
      \A i, j \in 1..Len(d) : i # j => d[i] # d[j] }

InitDispatch ==
  /\ variant = "handshake"
  /\ config = DefaultConfig
  /\ drawn = <<>>
  /\ sock = [s \in DispatchSockets |-> Admitted(<<>>)]
  /\ buffer = init(init(init(<<>>, "s1"), "s2"), "s3")
  /\ emitted = <<>>
  /\ received = [s \in DispatchSockets |-> <<>>]
  /\ last = NoEvent
  /\ call = NoCall
  /\ client = <<>>
  /\ pc = [s \in DispatchSockets |-> "ready"]

NextDispatch ==
  \/ \E s \in DispatchSockets, units \in DispatchUnits : Transmit(s, units)
  \/ \E sockets \in Destinations, units \in DispatchUnits : Broadcast(sockets, units)
  \/ \E s \in DispatchSockets : Close(s)

SpecDispatch == InitDispatch /\ [][NextDispatch]_vars

(* How often s occurs in a destination list *)
Occurrences(sockets, s) == Cardinality({ i \in 1..Len(sockets) : sockets[i] = s })

(* The destinations of the last call that were not writable when it began *)
NotWritable(s) == ~call.before[s].writable
Failing == SelectSeq(call.sockets, NotWritable)

(* C6: broadcast does not abort early. After a broadcast, every            *)
(* destination that was writable has the encoded record appended to its    *)
(* writes exactly once, also when a destination before it failed, and      *)
(* every other socket has the writes it had.                               *)
C6_BroadcastWritesAllWritable ==
  call.op = "broadcast" =>
    \A s \in DOMAIN sock :
      sock[s].written =
        IF ~NotWritable(s) /\ Occurrences(call.sockets, s) = 1
        THEN Append(call.before[s].written, encode(call.units))
        ELSE call.before[s].written

(* The second of three destinations failed; the first and the third were   *)
(* written, the third after the failure; the call raised.                  *)
C6_Witness ==
  /\ call.op = "broadcast"
  /\ call.sockets = <<"s1", "s2", "s3">>
  /\ call.error # <<>>
  /\ Len(call.error[1].cause) = 1
  /\ call.error[1].cause[1].socket = "s2"
  /\ sock["s1"].written = Append(call.before["s1"].written, encode(call.units))
  /\ sock["s3"].written = Append(call.before["s3"].written, encode(call.units))
  /\ Len(call.before["s1"].written) = 2
  /\ sock["s2"].written = call.before["s2"].written

(* C7: broadcast aggregate failure. broadcast raises exactly when some     *)
(* destination was not writable; what it raises is one error with code     *)
(* E_TCP_RECORD_CHANNEL_BROADCAST that carries the units and whose cause   *)
(* holds one E_TCP_RECORD_CHANNEL_TRANSMIT error per failing destination,  *)
(* in the order of the destinations.                                       *)
C7_BroadcastAggregate ==
  call.op = "broadcast" =>
    /\ (call.error # <<>>) <=> (Failing # <<>>)
    /\ Len(call.error) <= 1
    /\ call.error # <<>> =>
         LET error == call.error[1]
         IN  /\ error.code = "E_TCP_RECORD_CHANNEL_BROADCAST"
             /\ error.record = <<call.units>>
             /\ Len(error.cause) = Len(Failing)
             /\ \A i \in 1..Len(Failing) :
                  /\ error.cause[i].code = "E_TCP_RECORD_CHANNEL_TRANSMIT"
                  /\ error.cause[i].socket = Failing[i]

(* Two of three destinations failed and are reported in call order *)
C7_Witness ==
  /\ call.op = "broadcast"
  /\ call.sockets = <<"s3", "s2", "s1">>
  /\ call.error # <<>>
  /\ Len(call.error[1].cause) = 2
  /\ call.error[1].cause[1].socket = "s3"
  /\ call.error[1].cause[2].socket = "s1"
  /\ Len(sock["s2"].written) = 2

(* C8: transmit. On a writable socket transmit appends exactly             *)
(* encode(units) to the socket's writes and raises nothing; on a socket    *)
(* that is not writable it writes nothing and raises an error with code    *)
(* E_TCP_RECORD_CHANNEL_TRANSMIT that references the socket and carries    *)
(* the units.                                                              *)
C8_Transmit ==
  call.op = "transmit" =>
    LET s == call.sockets[1]
    IN  /\ \A x \in DOMAIN sock : x # s => sock[x].written = call.before[x].written
        /\ IF call.before[s].writable
           THEN /\ sock[s].written = Append(call.before[s].written, encode(call.units))
                /\ call.error = <<>>
           ELSE /\ sock[s].written = call.before[s].written
                /\ Len(call.error) = 1
                /\ call.error[1].code = "E_TCP_RECORD_CHANNEL_TRANSMIT"
                /\ call.error[1].socket = s
                /\ call.error[1].record = <<call.units>>

(* A transmit to a closed socket that had been written before raised *)
C8_Witness ==
  /\ call.op = "transmit"
  /\ call.sockets = <<"s2">>
  /\ call.units = << <<97>>, <<233>> >>
  /\ ~call.before["s2"].writable
  /\ sock["s2"].written = << <<2>>, <<97, 30>> >>
  /\ call.error # <<>>
  /\ call.error[1].record = << << <<97>>, <<233>> >> >>

(* A transmit to a writable socket wrote the encoded record *)
C8_WitnessWritten ==
  /\ call.op = "transmit"
  /\ call.units = << <<97>>, <<233>> >>
  /\ sock["s1"].written = << <<2>>, <<97, 31, 195, 169, 30>> >>
  /\ call.error = <<>>

----------------------------------------------------------------------------
(* Lifecycle specification: a server accepts a connection and runs         *)
(* onConnection on it, with or without a plugin, in either source variant, *)
(* while the peer sends bytes, the transport delivers and closes, and      *)
(* callers transmit and broadcast.                                         *)

Sockets == {"s1"}
Units == { << <<97>> >> }

Init ==
  /\ variant \in {"handshake", "immediate"}
  /\ config = DefaultConfig
  /\ drawn = <<>>
  /\ sock = [s \in Sockets |-> NewSocket]
  /\ buffer = <<>>
  /\ emitted = <<>>
  /\ received = [s \in Sockets |-> <<>>]
  /\ last = NoEvent
  /\ call = NoCall
  /\ client = <<>>
  /\ pc = [s \in Sockets |-> "idle"]

Next ==
  \/ \E s \in Sockets, authorized \in BOOLEAN, plugin \in BOOLEAN : Connection(s, authorized, plugin)
  \/ \E s \in Sockets, authorized \in BOOLEAN : PluginSettles(s, authorized)
  \/ \E s \in Sockets, byte \in StreamBytes : PeerSend(s, byte)
  \/ \E s \in Sockets, n \in 1..MaxInbox : Data(s, n)
  \/ \E s \in Sockets, units \in Units : Transmit(s, units)
  \/ \E s \in Sockets, units \in Units : Broadcast(<<s>>, units)
  \/ \E s \in Sockets : Close(s)
  \/ \E s \in Sockets : CloseEvent(s)

Spec == Init /\ [][Next]_vars

(* onConnection has passed its test of socket.authorized *)
Decided(s) == pc[s] \notin {"idle", "plugin"}

(* C9: unauthorized discard. For a connection whose authorization ended    *)
(* with socket.authorized false no 'record' has ever been notified,        *)
(* whatever arrived before or during the plugin, and the socket is         *)
(* destroyed and not writable.                                             *)
C9_UnauthorizedDiscard ==
  \A s \in Sockets :
    (Decided(s) /\ ~sock[s].authorized) =>
       /\ RecordsOf(emitted, s) = <<>>
       /\ sock[s].destroyed
       /\ ~sock[s].writable

(* A complete record had arrived while the plugin ran, and the plugin      *)
(* denied the peer.                                                        *)
C9_Witness ==
  /\ pc["s1"] = "rejected"
  /\ ~sock["s1"].authorized
  /\ sock["s1"].arrived = <<97, 30>>
  /\ sock["s1"].destroyed
  /\ emitted = <<>>

(* C26: no buffer for an unauthorized connection. A socket has an entry in *)
(* #buffer only when onConnection has passed its test with                 *)
(* socket.authorized true; for a denied connection there is no entry, no   *)
(* 'data' listener, no 'data' event was handled, no write of the marker    *)
(* and the socket is destroyed, and nothing of this changes any more.      *)
C26_NoBufferForUnauthorized ==
  /\ [](\A s \in Sockets :
          /\ s \in DOMAIN buffer => (Decided(s) /\ sock[s].authorized)
          /\ pc[s] = "rejected" =>
                /\ ~sock[s].authorized
                /\ s \notin DOMAIN buffer
                /\ sock[s].listener = "none"
                /\ received[s] = <<>>
                /\ sock[s].destroyed
                /\ \A i \in 1..Len(sock[s].written) :
                      sock[s].written[i] # Utf8(config.START_OF_TRANSMISSION))
  /\ [][\A s \in Sockets :
          pc[s] = "rejected" =>
            (pc'[s] = "rejected" /\ buffer' = buffer /\ sock'[s].listener = "none")]_vars

(* In the handshake variant the plugin denied a peer that had sent bytes,  *)
(* after a caller had written a record to the socket                       *)
C26_Witness ==
  /\ variant = "handshake"
  /\ pc["s1"] = "rejected"
  /\ sock["s1"].arrived # <<>>
  /\ sock["s1"].written = << <<97, 30>> >>
  /\ buffer = <<>>

(* C10, as stated: in the handshake variant the first write on an accepted *)
(* connection is the START_OF_TRANSMISSION marker, whoever writes, and an  *)
(* authorized connection has the marker written exactly once.              *)
C10_MarkerFirstAndOnce ==
  variant = "handshake" =>
    \A s \in Sockets :
      LET marker == Utf8(config.START_OF_TRANSMISSION)
      IN  /\ sock[s].written # <<>> => sock[s].written[1] = marker
          /\ (Decided(s) /\ sock[s].authorized) =>
                Cardinality({ i \in 1..Len(sock[s].written) : sock[s].written[i] = marker }) = 1

(* The transport reported 'close' on s *)
CloseReported(s) == \E i \in 1..Len(sock[s].reported) : sock[s].reported[i].event = "close"

(* C16, as stated: buffer discarded on close. Once the transport reported  *)
(* a ready connection closed, #buffer has no entry for the socket: no      *)
(* buffered bytes remain associated with it.                               *)
C16_BufferDiscardedOnClose ==
  \A s \in Sockets :
    (pc[s] = "ready" /\ CloseReported(s)) => s \notin DOMAIN buffer

(* C20, as stated: sending is gated on authorization. Nothing has been     *)
(* written by transmit or broadcast to an accepted socket whose plugin is  *)
(* still awaited or whose peer was denied.                                 *)
C20_SendingGatedOnAuthorization ==
  \A s \in Sockets :
    pc[s] \in {"plugin", "rejected"} => sock[s].written = <<>>

----------------------------------------------------------------------------
(* Connect specification: a client Channel calls createNetClient /         *)
(* createTlsClient towards a server Channel of the same source. c1 is the  *)
(* socket at the client, s1 the socket the server accepts for it. #buffer  *)
(* and the 'record' events of the two Channels are kept apart by the       *)
(* socket they belong to. The server's callers hold s1 from the moment the *)
(* plugin was handed it; the client's callers hold c1 once the promise is  *)
(* accepted.                                                               *)

ConnectSockets == {"c1", "s1"}
ConnectUnits == { << <<97>> >>, << <<2>> >> }

InitConnect ==
  /\ variant = "handshake"
  /\ config = DefaultConfig
  /\ drawn = <<>>
  /\ sock = [s \in ConnectSockets |-> NewSocket]
  /\ buffer = <<>>
  /\ emitted = <<>>
  /\ received = [s \in ConnectSockets |-> <<>>]
  /\ last = NoEvent
  /\ call = NoCall
  /\ client = <<>>
  /\ pc = [s \in ConnectSockets |-> "idle"]

Accepted(c) == c \in DOMAIN client /\ client[c].state = "accepted"

NextConnect ==
  \/ createClient("c1")
  \/ \E authorized \in BOOLEAN, plugin \in BOOLEAN :
        /\ "c1" \in DOMAIN client
        /\ Connection("s1", authorized, plugin)
  \/ \E authorized \in BOOLEAN : PluginSettles("s1", authorized)
  \/ \E x \in ConnectSockets : Flush(x)
  \/ \E n \in 1..Len(sock["c1"].inbox) : ReadyData("c1", n)
  \/ \E x \in ConnectSockets : \E n \in 1..Len(sock[x].inbox) : Data(x, n)
  \/ \E units \in ConnectUnits : Transmit("s1", units)
  \/ \E units \in ConnectUnits : Accepted("c1") /\ Transmit("c1", units)
  \/ \E reason \in Reasons : Error("c1", reason)
  \/ \E x \in ConnectSockets : Close(x)
  \/ \E x \in ConnectSockets : CloseEvent(x)

SpecConnect == InitConnect /\ [][NextConnect]_vars

(* C11, as stated: readiness implies authorization. The promise of         *)
(* createClient is accepted only when onConnection of the accepted socket  *)
(* has passed its test with socket.authorized true and admitted it; never  *)
(* while the plugin is awaited, never after the peer was denied.           *)
C11_ReadyImpliesAuthorized ==
  Accepted("c1") => pc["s1"] = "ready"

(* The first event the transport reported on s was 'close' *)
ClosedFirst(s) == sock[s].reported # <<>> /\ sock[s].reported[1].event = "close"

(* The promise is rejected with E_TCP_RECORD_CHANNEL_CLIENT_CONNECT and a  *)
(* cause of the given code                                                 *)
RejectedBecause(c, code) ==
  /\ client[c].state = "rejected"
  /\ client[c].error[1].code = "E_TCP_RECORD_CHANNEL_CLIENT_CONNECT"
  /\ client[c].error[1].cause.code = code

(* C12, as stated: rejected peer sees closed-before-ready. When            *)
(* onConnection denied the peer, or the connection closes before any byte  *)
(* arrived at the client, createClient is never accepted, and once the     *)
(* close is reported it is rejected with a cause of code                   *)
(* E_TCP_RECORD_CHANNEL_CLOSED_BEFORE_READY.                               *)
C12_DeniedSeesClosedBeforeReady ==
  ("c1" \in DOMAIN client /\ (pc["s1"] = "rejected" \/ sock["c1"].arrived = <<>>)) =>
     /\ ~Accepted("c1")
     /\ ClosedFirst("c1") => RejectedBecause("c1", "E_TCP_RECORD_CHANNEL_CLOSED_BEFORE_READY")

(* The part of C12 the code keeps: a connection that closes before any     *)
(* byte arrived at the client                                              *)
C12_ClosedBeforeAnyByte ==
  ("c1" \in DOMAIN client /\ sock["c1"].arrived = <<>>) =>
     /\ ~Accepted("c1")
     /\ ClosedFirst("c1") => RejectedBecause("c1", "E_TCP_RECORD_CHANNEL_CLOSED_BEFORE_READY")

(* C13: transport error is the cause. When the first thing the transport   *)
(* reports on a connecting client socket, no 'data' event having come, is  *)
(* an error, createClient is rejected with code                            *)
(* E_TCP_RECORD_CHANNEL_CLIENT_CONNECT and its cause is the very error     *)
(* object reported; the 'close' reported after the error does not replace  *)
(* it by a closed-before-ready cause.                                      *)
C13_TransportErrorIsCause ==
  ( /\ "c1" \in DOMAIN client
    /\ client["c1"].signal = <<>>
    /\ sock["c1"].reported # <<>>
    /\ sock["c1"].reported[1].event = "error" ) =>
     /\ client["c1"].state = "rejected"
     /\ Len(client["c1"].error) = 1
     /\ client["c1"].error[1].code = "E_TCP_RECORD_CHANNEL_CLIENT_CONNECT"
     /\ client["c1"].error[1].cause = sock["c1"].reported[1].reason
     /\ client["c1"].error[1].cause.code # "E_TCP_RECORD_CHANNEL_CLOSED_BEFORE_READY"

(* The transport reported a certificate error and then the close; the      *)
(* promise keeps the error as its cause                                    *)
C13_Witness ==
  /\ "c1" \in DOMAIN client
  /\ Len(sock["c1"].reported) = 2
  /\ sock["c1"].reported[1].event = "error"
  /\ sock["c1"].reported[2].event = "close"
  /\ client["c1"].state = "rejected"
  /\ client["c1"].error[1].cause.code = "UNABLE_TO_VERIFY_LEAF_SIGNATURE"

(* C14: handshake mismatch. When the first 'data' event of a connecting    *)
(* client socket carries bytes other than the START_OF_TRANSMISSION        *)
(* marker, createClient is rejected with code                              *)
(* E_TCP_RECORD_CHANNEL_CLIENT_CONNECT and a cause of code                 *)
(* E_TCP_RECORD_CHANNEL_INVALID_READY_SIGNAL, the socket is destroyed, the *)
(* decoder is never wired to it, it sees no further 'data' event and no    *)
(* 'record' is notified for it.                                            *)
C14_HandshakeMismatch ==
  ( /\ "c1" \in DOMAIN client
    /\ client["c1"].signal # <<>>
    /\ client["c1"].signal # Utf8(config.START_OF_TRANSMISSION) ) =>
     /\ RejectedBecause("c1", "E_TCP_RECORD_CHANNEL_INVALID_READY_SIGNAL")
     /\ sock["c1"].destroyed
     /\ sock["c1"].listener # "buffer"
     /\ received["c1"] = client["c1"].signal
     /\ buffer["c1"] = <<>>
     /\ RecordsOf(emitted, "c1") = <<>>

(* The first event carried a whole record; the close was reported after    *)
(* the mismatch and changed nothing                                        *)
C14_Witness ==
  /\ "c1" \in DOMAIN client
  /\ client["c1"].signal = <<97, 30>>
  /\ client["c1"].state = "rejected"
  /\ client["c1"].error[1].cause.code = "E_TCP_RECORD_CHANNEL_INVALID_READY_SIGNAL"
  /\ ClosedFirst("c1")
  /\ emitted = <<>>

(* C22: the handshake outcome does not depend on transport chunking. When  *)
(* the accepting side admitted the peer and wrote the marker first, and    *)
(* the first 'data' event of the client begins with the marker, whatever   *)
(* follows it in the same event, the client-connect succeeds.              *)
C22_ChunkingIndependent ==
  LET marker == Utf8(config.START_OF_TRANSMISSION)
  IN  ( /\ "c1" \in DOMAIN client
        /\ pc["s1"] = "ready"
        /\ sock["s1"].written # <<>>
        /\ sock["s1"].written[1] = marker
        /\ Len(client["c1"].signal) >= Len(marker)
        /\ SubSeq(client["c1"].signal, 1, Len(marker)) = marker )
      => Accepted("c1")

----------------------------------------------------------------------------
(* Delivery specification: the connect specification on a transport that   *)
(* neither closes nor fails, run fairly: what was written is carried to    *)
(* the peer, what arrived is emitted as 'data' to a socket that listens,   *)
(* and the plugin's promise settles.                                       *)

NextDeliver ==
  \/ createClient("c1")
  \/ \E authorized \in BOOLEAN, plugin \in BOOLEAN :
        /\ "c1" \in DOMAIN client
        /\ Connection("s1", authorized, plugin)
  \/ \E authorized \in BOOLEAN : PluginSettles("s1", authorized)
  \/ \E x \in ConnectSockets : Flush(x)
  \/ \E n \in 1..Len(sock["c1"].inbox) : ReadyData("c1", n)
  \/ \E x \in ConnectSockets : \E n \in 1..Len(sock[x].inbox) : Data(x, n)
  \/ \E units \in ConnectUnits : Transmit("s1", units)
  \/ \E units \in ConnectUnits : Broadcast(<<"s1">>, units)
  \/ \E units \in ConnectUnits : Accepted("c1") /\ Transmit("c1", units)

Fairness ==
  /\ WF_vars(\E authorized \in BOOLEAN : PluginSettles("s1", authorized))
  /\ \A x \in ConnectSockets : WF_vars(Flush(x))
  /\ \A x \in ConnectSockets : WF_vars(\E n \in 1..Len(sock[x].inbox) : Data(x, n))
  /\ WF_vars(\E n \in 1..Len(sock["c1"].inbox) : ReadyData("c1", n))

SpecDeliver == InitConnect /\ [][NextDeliver]_vars /\ Fairness

(* The connection stays open *)
StaysOpen == \A x \in ConnectSockets : ~sock[x].destroyed

(* The client, its connect having succeeded, transmitted units on c1 *)
ClientTransmitted(units) ==
  /\ Accepted("c1")
  /\ \E i \in 1..Len(sock["c1"].written) : sock["c1"].written[i] = encode(units)

(* The server broadcast units to s1 after the client's connect succeeded *)
ServerBroadcast(units) ==
  /\ call.op = "broadcast"
  /\ call.sockets = <<"s1">>
  /\ call.units = units
  /\ call.error = <<>>
  /\ call.before["c1"].listener = "buffer"

(* The Channel of socket s notified 'record' with (units, s) *)
Notified(units, s) == \E i \in 1..Len(emitted) : emitted[i] = [units |-> units, socket |-> s]

(* C15, as stated: end-to-end delivery after the handshake. On a           *)
(* connection that stays open, once createClient was accepted, a record    *)
(* the client transmits is eventually notified by the server's Channel     *)
(* with equal units and the accepted socket, and a record the server then  *)
(* broadcasts to that socket is eventually notified by the client's        *)
(* Channel with equal units and the client's socket.                       *)
C15_EndToEndDelivery ==
  []StaysOpen =>
     /\ \A units \in ConnectUnits : ClientTransmitted(units) ~> Notified(units, "s1")
     /\ \A units \in ConnectUnits : ServerBroadcast(units) ~> Notified(units, "c1")

----------------------------------------------------------------------------
(* Client specification: a Channel calls createNetClient / createTlsClient *)
(* towards any peer. The peer sends any bytes, the transport delivers them *)
(* in any chunks, reports errors and closes at any moment.                 *)

ClientBytes == {2, 97, 30}

InitClient ==
  /\ variant = "handshake"
  /\ config = DefaultConfig
  /\ drawn = <<>>
  /\ sock = [s \in {"c1"} |-> NewSocket]
  /\ buffer = <<>>
  /\ emitted = <<>>
  /\ received = [s \in {"c1"} |-> <<>>]
  /\ last = NoEvent
  /\ call = NoCall
  /\ client = <<>>
  /\ pc = [s \in {"c1"} |-> "idle"]

NextClient ==
  \/ createClient("c1")
  \/ \E byte \in ClientBytes : PeerSend("c1", byte)
  \/ \E n \in 1..Len(sock["c1"].inbox) : ReadyData("c1", n)
  \/ \E n \in 1..Len(sock["c1"].inbox) : Data("c1", n)
  \/ \E reason \in Reasons : Error("c1", reason)
  \/ Close("c1")
  \/ CloseEvent("c1")

SpecClient == InitClient /\ [][NextClient]_vars

(* The bytes the 'data' events of s carried after the ready signal *)
AfterSignal(s) == SubSeq(received[s], Len(client[s].signal) + 1, Len(received[s]))

(* C21: the marker stays out of the decoder. After a successful handshake  *)
(* the first 'data' event was the marker and nothing else, #buffer and the *)
(* 'record' notifications are what the bytes of the later events alone     *)
(* give, and at the moment the promise is accepted the buffer is empty and *)
(* nothing has been notified.                                              *)
C21_MarkerOutOfDecoder ==
  /\ [](Accepted("c1") =>
          LET rest     == AfterSignal("c1")
              notified == RecordsOf(emitted, "c1")
          IN  /\ client["c1"].signal = Utf8(config.START_OF_TRANSMISSION)
              /\ received["c1"] = client["c1"].signal \o rest
              /\ buffer["c1"] = AfterLastSeparator(rest)
              /\ Len(notified) = Cardinality(SeparatorsIn(rest))
              /\ \A k \in 1..Len(notified) : notified[k] = TerminatedBy(rest, k))
  /\ [][(~Accepted("c1") /\ Accepted("c1")') =>
           (buffer'["c1"] = <<>> /\ emitted' = <<>>)]_vars

(* After the marker the record 'a' arrived and was notified *)
C21_Witness ==
  /\ Accepted("c1")
  /\ received["c1"] = <<2, 97, 30>>
  /\ emitted = << [units |-> << <<97>> >>, socket |-> "c1"] >>
  /\ buffer["c1"] = <<>>

(* C23: client-connect settles once. The promise is settled exactly when   *)
(* the first 'data', 'close' or 'error' event of the socket has come, its  *)
(* outcome is the one that event gives, and a settled promise never        *)
(* changes: not by the close after a mismatch, not by a close or an error  *)
(* after a successful handshake.                                           *)
C23_SettlesOnce ==
  /\ []("c1" \in DOMAIN client =>
          LET p == client["c1"]
              r == sock["c1"].reported
          IN  /\ (p.state # "pending") <=> (p.signal # <<>> \/ r # <<>>)
              /\ p.signal = Utf8(config.START_OF_TRANSMISSION) => p.state = "accepted"
              /\ (p.signal # <<>> /\ p.signal # Utf8(config.START_OF_TRANSMISSION)) =>
                    RejectedBecause("c1", "E_TCP_RECORD_CHANNEL_INVALID_READY_SIGNAL")
              /\ (p.signal = <<>> /\ r # <<>> /\ r[1].event = "close") =>
                    RejectedBecause("c1", "E_TCP_RECORD_CHANNEL_CLOSED_BEFORE_READY")
              /\ (p.signal = <<>> /\ r # <<>> /\ r[1].event = "error") =>
                    (p.state = "rejected" /\ p.error[1].cause = r[1].reason))
  /\ [][("c1" \in DOMAIN client /\ client["c1"].state # "pending") =>
           client'["c1"] = client["c1"]]_vars

(* After a successful handshake the transport reported an error and the    *)
(* close; the promise is still accepted                                    *)
C23_Witness ==
  /\ Accepted("c1")
  /\ Len(sock["c1"].reported) = 2
  /\ sock["c1"].reported[1].event = "error"
  /\ sock["c1"].reported[2].event = "close"
  /\ client["c1"].error = <<>>

(* C24: no records after a failed connect. Once the promise is rejected    *)
(* the decoder is not wired to the socket, the socket is destroyed and     *)
(* emits no 'data' any more, its buffer is empty and no 'record' has been  *)
(* or will be notified for it.                                             *)
C24_NoRecordsAfterFailedConnect ==
  /\ []( ("c1" \in DOMAIN client /\ client["c1"].state = "rejected") =>
            /\ sock["c1"].listener # "buffer"
            /\ sock["c1"].destroyed
            /\ buffer["c1"] = <<>>
            /\ RecordsOf(emitted, "c1") = <<>> )
  /\ [][("c1" \in DOMAIN client /\ client["c1"].state = "rejected") =>
           (emitted' = emitted /\ buffer' = buffer /\ received' = received)]_vars

(* A whole record had arrived at the socket when the connection closed     *)
(* before the ready signal; the connect failed and nothing was notified    *)
C24_Witness ==
  /\ "c1" \in DOMAIN client
  /\ client["c1"].state = "rejected"
  /\ client["c1"].error[1].cause.code = "E_TCP_RECORD_CHANNEL_CLOSED_BEFORE_READY"
  /\ sock["c1"].arrived = <<97, 30>>
  /\ received["c1"] = <<>>
  /\ emitted = <<>>

----------------------------------------------------------------------------
(* Immediate-ready specification: the older source, in which               *)
(* createTlsClient / createNetClient return the socket at once and         *)
(* onConnection writes no marker. The client may transmit as soon as it    *)
(* has the socket, the server's plugin settles at any moment, the          *)
(* transport neither closes nor fails and is run fairly.                   *)

InitImmediate ==
  /\ variant = "immediate"
  /\ config = DefaultConfig
  /\ drawn = <<>>
  /\ sock = [s \in ConnectSockets |-> NewSocket]
  /\ buffer = <<>>
  /\ emitted = <<>>
  /\ received = [s \in ConnectSockets |-> <<>>]
  /\ last = NoEvent
  /\ call = NoCall
  /\ client = <<>>
  /\ pc = [s \in ConnectSockets |-> "idle"]

NextImmediate ==
  \/ createClient("c1")
  \/ \E authorized \in BOOLEAN, plugin \in BOOLEAN :
        /\ "c1" \in DOMAIN client
        /\ Connection("s1", authorized, plugin)
  \/ \E authorized \in BOOLEAN : PluginSettles("s1", authorized)
  \/ \E x \in ConnectSockets : Flush(x)
  \/ \E x \in ConnectSockets : \E n \in 1..Len(sock[x].inbox) : Data(x, n)
  \/ \E units \in ConnectUnits : Transmit("c1", units)

SpecImmediate == InitImmediate /\ [][NextImmediate]_vars /\ Fairness

(* The last call was the client's transmit of units on c1, made when       *)
(* onConnection had neither admitted nor destroyed the server's socket     *)
TransmittedEarly(units) ==
  /\ call.op = "transmit"
  /\ call.sockets = <<"c1">>
  /\ call.units = units
  /\ call.error = <<>>
  /\ call.before["s1"].listener = "none"
  /\ ~call.before["s1"].destroyed

(* C27: bytes that arrive during authorization follow the decision, in the *)
(* immediate-ready variant. A record the client transmitted before         *)
(* onConnection decided is, once the peer is admitted, eventually notified *)
(* by the server's Channel with equal units; the records notified for the  *)
(* server's socket are, one for one and in order, the records the client   *)
(* wrote; and for a denied peer no record is notified.                     *)
C27_HeldDuringAuthorization ==
  /\ \A units \in ConnectUnits :
        (TransmittedEarly(units) /\ pc["s1"] = "ready") ~> Notified(units, "s1")
  /\ [](LET notified == RecordsOf(emitted, "s1")
        IN  /\ Len(notified) <= Len(sock["c1"].written)
            /\ \A k \in 1..Len(notified) : encode(notified[k]) = sock["c1"].written[k])
  /\ [](pc["s1"] = "rejected" => RecordsOf(emitted, "s1") = <<>>)

(* The record the client transmitted before the decision reached the       *)
(* server's socket, the peer was admitted and the record was notified once *)
C27_Witness ==
  /\ TransmittedEarly(<< <<97>> >>)
  /\ pc["s1"] = "ready"
  /\ sock["c1"].written = << <<97, 30>> >>
  /\ sock["c1"].flushed = 1
  /\ emitted = << [units |-> << <<97>> >>, socket |-> "s1"] >>

----------------------------------------------------------------------------
(* Separator specification: Channels constructed with different            *)
(* RECORD_SEPARATOR values, "\x1E" (the default), "\r\n" and U+00E9, whose *)
(* UTF-8 encoding has two bytes. The peer sends records encoded with the   *)
(* same configuration and the transport delivers them in any chunks.       *)

SeparatorConfigs ==
  { [DefaultConfig EXCEPT !.RECORD_SEPARATOR = sep] : sep \in { <<30>>, <<13, 10>>, <<233>> } }

SeparatorRecords == { << <<97>> >>, << <<98>>, <<97>> >> }

InitSeparator ==
  /\ variant = "handshake"
  /\ config \in SeparatorConfigs
  /\ drawn \in UNION { [1..n -> SeparatorRecords] : n \in 1..MaxRecords }
  /\ sock = [s \in {"s1"} |-> Admitted(Stream(drawn))]
  /\ buffer = init(<<>>, "s1")
  /\ emitted = <<>>
  /\ received = [s \in {"s1"} |-> <<>>]
  /\ last = NoEvent
  /\ call = NoCall
  /\ client = <<>>
  /\ pc = [s \in {"s1"} |-> "ready"]

NextSeparator == DataChunk \/ EncodeDrawn

SpecSeparator == InitSeparator /\ [][NextSeparator]_vars

(* C28: decode removes the whole separator for any configured value. When  *)
(* all the bytes of records encoded with the Channel's RECORD_SEPARATOR,   *)
(* of one byte or of more, have been handled, the records notified are     *)
(* the records sent, none of them beginning with a byte of a separator,    *)
(* and the buffer is empty.                                                *)
C28_WholeSeparatorRemoved ==
  (sock["s1"].inbox = <<>> /\ received["s1"] = Stream(drawn)) =>
     /\ RecordsOf(emitted, "s1") = [i \in 1..Len(drawn) |-> drawn[i]]
     /\ buffer["s1"] = <<>>

====
